---- MODULE Spec2Model ----
(***************************************************************************)
(* Announcements router of the High School Management System API           *)
(* (src/src/backend/routers/announcements.py).                             *)
(*                                                                         *)
(* Python strings are sequences of one-character strings, compared the way *)
(* Python and the document store compare them (by code point, a proper     *)
(* prefix first).  None is a value distinct from every string.             *)
(***************************************************************************)
EXTENDS Integers, Sequences, FiniteSets, Bags, TLC

VARIABLES
    announcements_collection,  \* the Announcement Store, in natural (insertion) order
    teachers_collection,       \* the Teacher Directory: the set of its keys
    next_oid,                  \* the identifier the store generates next
    clock,                     \* the system clock read by datetime.now()
    inflight,                  \* the requests being handled, each before its next call
    last                       \* the response being sent, with the request it answers

vars == <<announcements_collection, teachers_collection, next_oid, clock, inflight, last>>

----------------------------------------------------------------------------
(* Bounds of the model *)

MaxDocs == 2      \* identifiers the store generates in one run
MaxDay  == 2      \* days the clock runs through
MaxUs   == 1      \* microseconds the clock runs through within a day
MaxInflight == 2  \* requests handled at the same time

(* Length of the hexadecimal form of an ObjectId *)
OidHexLen == 24

----------------------------------------------------------------------------
(* Strings *)

None == <<"None">>

\* The characters the model uses, in code point order.
Ascii == <<"-", ".", "0", "1", "2", "3", "4", "5", "6", "7", "8", "9", ":",
           "A", "B", "C", "D", "E", "F", "T",
           "a", "b", "c", "d", "e", "f", "g", "h", "i", "o", "y">>

Ord(c) == CHOOSE i \in DOMAIN Ascii : Ascii[i] = c

RECURSIVE StrLeq(_, _)
\* a <= b for two strings
StrLeq(a, b) ==
    IF a = <<>> THEN TRUE
    ELSE IF b = <<>> THEN FALSE
    ELSE IF Head(a) = Head(b) THEN StrLeq(Tail(a), Tail(b))
    ELSE Ord(Head(a)) < Ord(Head(b))

StrGeq(a, b) == StrLeq(b, a)

\* Python truthiness of an Optional[str]
Truthy(v) == v # None /\ v # <<>>

Digits == <<"0", "1", "2", "3", "4", "5", "6", "7", "8", "9">>
HexDigits == Digits \o <<"a", "b", "c", "d", "e", "f">>
UpperHexDigits == Digits \o <<"A", "B", "C", "D", "E", "F">>

RECURSIVE ZeroPad(_, _, _)
\* n written in the given digits, zero padded to the given width
ZeroPad(n, width, digits) ==
    IF width = 0 THEN <<>>
    ELSE Append(ZeroPad(n \div Len(digits), width - 1, digits), digits[(n % Len(digits)) + 1])

----------------------------------------------------------------------------
(* datetime *)

\* datetime.now().strftime("%Y-%m-%d")
strftime(now) ==
    <<"2", "0", "2", "4", "-", "0", "1", "-">> \o ZeroPad(now.day, 2, Digits)

\* datetime.now().isoformat(): the microseconds are left out when they are 0
isoformat(now) ==
    strftime(now) \o <<"T", "0", "0", ":", "0", "0", ":", "0", "0">>
        \o (IF now.us = 0 THEN <<>> ELSE <<".">> \o ZeroPad(now.us, 6, Digits))

----------------------------------------------------------------------------
(* bson.ObjectId: twelve bytes, written as 24 hexadecimal characters *)

IsHex(c) == (\E i \in DOMAIN HexDigits : HexDigits[i] = c)
                \/ (\E i \in DOMAIN UpperHexDigits : UpperHexDigits[i] = c)

HexVal(c) ==
    IF \E i \in DOMAIN HexDigits : HexDigits[i] = c
    THEN (CHOOSE i \in DOMAIN HexDigits : HexDigits[i] = c) - 1
    ELSE (CHOOSE i \in DOMAIN UpperHexDigits : UpperHexDigits[i] = c) - 1

\* The vertical tab, code point 11, written as the character itself
VerticalTab == ""

\* Py_ISSPACE: the six ASCII whitespace characters bytes.fromhex skips
\* between bytes
IsSpace(c) == c \in {" ", "\t", "\n", VerticalTab, "\f", "\r"}

RECURSIVE FromHex(_)
\* bytes.fromhex(s): whitespace is skipped before each byte, a byte is two
\* adjacent hexadecimal characters, anything else raises ValueError
FromHex(s) ==
    IF s = <<>> THEN [valid |-> TRUE, bytes |-> <<>>]
    ELSE IF IsSpace(Head(s)) THEN FromHex(Tail(s))
    ELSE IF Len(s) >= 2 /\ IsHex(s[1]) /\ IsHex(s[2])
    THEN LET rest == FromHex(SubSeq(s, 3, Len(s)))
         IN  [valid |-> rest.valid,
              bytes |-> IF rest.valid
                        THEN <<Len(HexDigits) * HexVal(s[1]) + HexVal(s[2])>> \o rest.bytes
                        ELSE <<>>]
    ELSE [valid |-> FALSE, bytes |-> <<>>]

\* ObjectId(s): a string of 24 characters that bytes.fromhex accepts, else
\* InvalidId is raised; the identifier is the bytes read, twelve when the
\* string has no whitespace
ObjectId(s) ==
    IF Len(s) = OidHexLen /\ FromHex(s).valid
    THEN [valid |-> TRUE, oid |-> FromHex(s).bytes]
    ELSE [valid |-> FALSE, oid |-> <<>>]

RECURSIVE OidStr(_)
\* str(oid): two lower case hexadecimal characters for each byte
OidStr(oid) ==
    IF oid = <<>> THEN <<>>
    ELSE ZeroPad(Head(oid), 2, HexDigits) \o OidStr(Tail(oid))

\* The first identifier the store generates: the least whose text has a letter
FirstOid == Len(Digits)

\* The n-th identifier the store generates
GenOid(n) == [i \in 1 .. (OidHexLen \div 2) |-> IF i = OidHexLen \div 2 THEN n ELSE 0]

\* announcement["_id"] = str(announcement["_id"])
Stringify(doc) == [doc EXCEPT !._id = OidStr(doc._id)]

StringifyAll(docs) == [i \in DOMAIN docs |-> Stringify(docs[i])]

----------------------------------------------------------------------------
(* The document store *)

\* A faulty variant: no lookup, every caller passes
teacher_exists_any(teachers, username) == TRUE

\* find_one({"_id": key}) on the Teacher Directory
teacher_exists(teachers, username) == username \in teachers

\* insert_one(doc): the store generates the identifier
insert_one(coll, doc, oid) ==
    Append(coll, [_id |-> oid, message |-> doc.message, start_date |-> doc.start_date,
                  expiration_date |-> doc.expiration_date, created_by |-> doc.created_by,
                  created_at |-> doc.created_at])

matched(coll, oid) == {i \in DOMAIN coll : coll[i]._id = oid}

\* A faulty variant: the fields the patch leaves out are cleared
apply_set_clearing(doc, upd) ==
    [f \in DOMAIN doc |->
        IF f \in DOMAIN upd THEN upd[f]
        ELSE IF f \in {"message", "start_date", "expiration_date"} THEN None
        ELSE doc[f]]

\* {"$set": update_doc} applied to one document
apply_set(doc, upd) == [f \in DOMAIN doc |-> IF f \in DOMAIN upd THEN upd[f] ELSE doc[f]]

\* update_one({"_id": oid}, {"$set": update_doc})
update_one(coll, oid, upd) ==
    [coll |-> [i \in DOMAIN coll |-> IF coll[i]._id = oid THEN apply_set(coll[i], upd) ELSE coll[i]],
     matched_count |-> Cardinality(matched(coll, oid))]

\* delete_one({"_id": oid})
delete_one(coll, oid) ==
    [coll |-> SelectSeq(coll, LAMBDA d : d._id # oid),
     deleted_count |-> Cardinality(matched(coll, oid))]

\* find_one({"_id": oid}): <<the document>>, or <<>> for None
find_one(coll, oid) ==
    IF matched(coll, oid) = {} THEN <<>>
    ELSE <<coll[CHOOSE i \in matched(coll, oid) : TRUE]>>

\* A faulty variant: sort("created_at", 1), oldest first
sorted_asc(coll) ==
    {p \in [DOMAIN coll -> DOMAIN coll] :
        /\ \A i, j \in DOMAIN coll : i # j => p[i] # p[j]
        /\ \A i \in DOMAIN coll : i + 1 \in DOMAIN coll =>
               StrLeq(coll[p[i]].created_at, coll[p[i + 1]].created_at)}

\* find().sort("created_at", -1): the orders the store may return, each a
\* sequence of positions of the collection
sorted_desc(coll) ==
    {p \in [DOMAIN coll -> DOMAIN coll] :
        /\ \A i, j \in DOMAIN coll : i # j => p[i] # p[j]
        /\ \A i \in DOMAIN coll : i + 1 \in DOMAIN coll =>
               StrGeq(coll[p[i]].created_at, coll[p[i + 1]].created_at)}

----------------------------------------------------------------------------
(* Requests and responses *)

NoPatch == [message |-> None, start_date |-> None, expiration_date |-> None]

NoAnnouncement ==
    [message |-> None, start_date |-> None, expiration_date |-> None, created_by |-> None]

\* The detail of a response: a text, then for f"...: {str(e)}" the text of
\* the exception and the value it names
Detail(text, exc, arg) == [text |-> text, exc |-> exc, arg |-> arg]

NoDetail == Detail("", "", <<>>)

\* A request being handled: its arguments, the call it makes next (pc) and
\* the date or time it has read from the clock
Request(op, pc, username, id, patch, announcement, date) ==
    [op |-> op, pc |-> pc, username |-> username, id |-> id, patch |-> patch,
     announcement |-> announcement, date |-> date]

Free == Request("free", "", None, None, NoPatch, NoAnnouncement, None)

\* The requests being handled
Handled == BagToSet(inflight)

\* A worker thread is left for one more request
HasFree == BagCardinality(inflight) < MaxInflight

\* The request is taken up by a worker thread
Start(request) == inflight (+) SetToBag({request})

\* The request has been answered
Finish(request) == inflight (-) SetToBag({request})

\* The request goes on to its next call
Continue(request, next) == Finish(request) (+) SetToBag({next})

Response(request, status, detail, body) ==
    [op |-> request.op, username |-> request.username, id |-> request.id,
     patch |-> request.patch, date |-> request.date,
     status |-> status, detail |-> detail, body |-> body]

\* No response is being sent
Idle == Response(Free, 0, NoDetail, <<>>)

Unauthorized(request) == Response(request, 401, Detail("Unauthorized", "", <<>>), <<>>)

\* The response reaches the client
respond ==
    /\ last # Idle
    /\ last' = Idle
    /\ UNCHANGED <<announcements_collection, teachers_collection, next_oid, clock, inflight>>

----------------------------------------------------------------------------
(* GET /announcements/active *)

\* A faulty variant: start_date < current_date
started_strict(announcement, current_date) ==
    IF Truthy(announcement.start_date)
    THEN StrLeq(announcement.start_date, current_date)
             /\ announcement.start_date # current_date
    ELSE TRUE

\* started if start_date exists
started(announcement, current_date) ==
    IF Truthy(announcement.start_date)
    THEN StrLeq(announcement.start_date, current_date)
    ELSE TRUE

\* {"expiration_date": {"$gte": current_date}}
query(announcement, current_date) == StrGeq(announcement.expiration_date, current_date)

\* find(query), then the filter by start_date
active_announcements(coll, current_date) ==
    LET announcements == SelectSeq(coll, LAMBDA a : query(a, current_date))
    IN  SelectSeq(announcements, LAMBDA a : started(a, current_date))

\* current_date = datetime.now().strftime("%Y-%m-%d")
get_active_announcements ==
    /\ last = Idle
    /\ HasFree
    /\ inflight' = Start(Request("list_active", "find", None, None, NoPatch,
                                 NoAnnouncement, strftime(clock)))
    /\ UNCHANGED <<announcements_collection, teachers_collection, next_oid, clock, last>>

\* announcements_collection.find(query), the filter and the return
get_active_announcements_find(r) ==
    /\ last = Idle
    /\ r \in Handled
    /\ r.op = "list_active"
    /\ last' = Response(r, 200, NoDetail,
                        StringifyAll(active_announcements(announcements_collection,
                                                          r.date)))
    /\ inflight' = Finish(r)
    /\ UNCHANGED <<announcements_collection, teachers_collection, next_oid, clock>>

----------------------------------------------------------------------------
(* GET /announcements/all *)

\* teachers_collection.find_one({"_id": username})
get_all_announcements(username) ==
    LET request == Request("list_all", "find", username, None, NoPatch, NoAnnouncement, None)
    IN  /\ last = Idle
        /\ IF ~teacher_exists(teachers_collection, username)
           THEN /\ last' = Unauthorized(request)
                /\ UNCHANGED inflight
           ELSE /\ HasFree
                /\ inflight' = Start(request)
                /\ UNCHANGED last
        /\ UNCHANGED <<announcements_collection, teachers_collection, next_oid, clock>>

\* announcements_collection.find().sort("created_at", -1) and the return
get_all_announcements_find(r) ==
    /\ last = Idle
    /\ r \in Handled
    /\ r.op = "list_all"
    /\ \E p \in sorted_desc(announcements_collection) :
           last' = Response(r, 200, NoDetail,
                       StringifyAll([i \in DOMAIN p |-> announcements_collection[p[i]]]))
    /\ inflight' = Finish(r)
    /\ UNCHANGED <<announcements_collection, teachers_collection, next_oid, clock>>

----------------------------------------------------------------------------
(* POST /announcements/ *)

\* Creations the store still has identifiers for
CanCreate ==
    LET creating == {r \in Handled : r.op = "create"}
    IN  next_oid + BagCardinality([r \in creating |-> inflight[r]]) < FirstOid + MaxDocs

\* teachers_collection.find_one({"_id": announcement.created_by})
create_announcement(announcement) ==
    LET request == Request("create", "now", announcement.created_by, None, NoPatch,
                           announcement, None)
    IN  /\ last = Idle
        /\ IF ~teacher_exists(teachers_collection, announcement.created_by)
           THEN /\ last' = Unauthorized(request)
                /\ UNCHANGED inflight
           ELSE /\ HasFree
                /\ CanCreate
                /\ inflight' = Start(request)
                /\ UNCHANGED last
        /\ UNCHANGED <<announcements_collection, teachers_collection, next_oid, clock>>

\* "created_at": datetime.now().isoformat()
create_announcement_now(r) ==
    /\ last = Idle
    /\ r \in Handled
    /\ r.op = "create"
    /\ r.pc = "now"
    /\ inflight' = Continue(r, [r EXCEPT !.pc = "insert_one", !.date = isoformat(clock)])
    /\ UNCHANGED <<announcements_collection, teachers_collection, next_oid, clock, last>>

\* announcements_collection.insert_one(announcement_doc) and the return
create_announcement_insert(r) ==
    LET announcement == r.announcement
        announcement_doc ==
            [message |-> announcement.message,
             start_date |-> announcement.start_date,
             expiration_date |-> announcement.expiration_date,
             created_by |-> announcement.created_by,
             created_at |-> r.date]
        coll == insert_one(announcements_collection, announcement_doc, GenOid(next_oid))
    IN  /\ last = Idle
        /\ r \in Handled
        /\ r.op = "create"
        /\ r.pc = "insert_one"
        /\ announcements_collection' = coll
        /\ next_oid' = next_oid + 1
        /\ last' = Response(r, 200, NoDetail, <<Stringify(coll[Len(coll)])>>)
        /\ inflight' = Finish(r)
        /\ UNCHANGED <<teachers_collection, clock>>

----------------------------------------------------------------------------
(* try / except of update_announcement and delete_announcement *)

\* What a try block raised: the exception, the response the framework would
\* give were it not caught, and str(e); "none" when the block ran to its return
Raised(exception, status, detail, str) ==
    [exception |-> exception, status |-> status, detail |-> detail, str |-> str]

InvalidId(oid) ==
    Raised("InvalidId", 500, Detail("Internal Server Error", "", <<>>),
           Detail("", "%r is not a valid ObjectId, it must be a 12-byte input or a 24-character hex string", oid))

TypeError ==
    Raised("TypeError", 500, Detail("Internal Server Error", "", <<>>),
           Detail("", "'NoneType' object is not subscriptable", <<>>))

NotFound ==
    Raised("HTTPException", 404, Detail("Announcement not found", "", <<>>),
           Detail("", "404: Announcement not found", <<>>))

Returned == Raised("none", 200, NoDetail, NoDetail)

\* A faulty variant: no except clause
catches_none(exception) == FALSE

\* except Exception: HTTPException is an Exception as InvalidId and TypeError are
catches(exception) == exception \in {"InvalidId", "TypeError", "HTTPException"}

\* except Exception as e:
\*     raise HTTPException(status_code=400, detail=f"Invalid announcement ID: {str(e)}")
except_handler(raised) ==
    IF catches(raised.exception)
    THEN Raised("HTTPException", 400,
                Detail("Invalid announcement ID: ", raised.str.exc, raised.str.arg),
                NoDetail)
    ELSE raised

----------------------------------------------------------------------------
(* PUT /announcements/{announcement_id} *)

\* A faulty variant: the fields are copied without the "is not None" tests
update_doc_all(announcement) ==
    [f \in {"message", "start_date", "expiration_date"} |-> announcement[f]]

\* Build update document
update_doc(announcement) ==
    LET fields == {f \in {"message", "start_date", "expiration_date"} : announcement[f] # None}
    IN  [f \in fields |-> announcement[f]]

\* A faulty variant: the patch is examined before the caller
update_checks_swapped(request) ==
    IF DOMAIN update_doc(request.patch) = {}
    THEN Response(request, 400, Detail("No fields to update", "", <<>>), <<>>)
    ELSE IF ~teacher_exists(teachers_collection, request.username)
    THEN Unauthorized(request)
    ELSE IF ~ObjectId(request.id).valid
    THEN Response(request, except_handler(InvalidId(request.id)).status,
                  except_handler(InvalidId(request.id)).detail, <<>>)
    ELSE Response(request, 200, NoDetail, <<>>)

\* update_announcement up to its call of update_one: the lookup of the
\* caller, the update document and ObjectId(announcement_id); status 200
\* stands for no response yet
update_checks(request) ==
    IF ~teacher_exists(teachers_collection, request.username)
    THEN Unauthorized(request)
    ELSE IF DOMAIN update_doc(request.patch) = {}
    THEN Response(request, 400, Detail("No fields to update", "", <<>>), <<>>)
    ELSE IF ~ObjectId(request.id).valid
    THEN Response(request, except_handler(InvalidId(request.id)).status,
                  except_handler(InvalidId(request.id)).detail, <<>>)
    ELSE Response(request, 200, NoDetail, <<>>)

\* teachers_collection.find_one({"_id": username}) and what follows it
\* before the next call
update_announcement(announcement_id, announcement, username) ==
    LET request == Request("update", "update_one", username, announcement_id,
                           announcement, NoAnnouncement, None)
        early == update_checks(request)
    IN  /\ last = Idle
        /\ IF early.status # 200
           THEN /\ last' = early
                /\ UNCHANGED inflight
           ELSE /\ HasFree
                /\ inflight' = Start(request)
                /\ UNCHANGED last
        /\ UNCHANGED <<announcements_collection, teachers_collection, next_oid, clock>>

\* update_one and the test of matched_count
update_try_write(coll, announcement_id, upd) ==
    LET result == update_one(coll, ObjectId(announcement_id).oid, upd)
    IN  IF result.matched_count = 0
        THEN [raised |-> NotFound, coll |-> result.coll]
        ELSE [raised |-> Returned, coll |-> result.coll]

\* announcements_collection.update_one(...) and what follows it
update_announcement_write(r) ==
    LET written == update_try_write(announcements_collection, r.id,
                                    update_doc(r.patch))
        final == except_handler(written.raised)
    IN  /\ last = Idle
        /\ r \in Handled
        /\ r.op = "update"
        /\ r.pc = "update_one"
        /\ announcements_collection' = written.coll
        /\ IF written.raised # Returned
           THEN /\ last' = Response(r, final.status, final.detail, <<>>)
                /\ inflight' = Finish(r)
           ELSE /\ inflight' = Continue(r, [r EXCEPT !.pc = "find_one"])
                /\ UNCHANGED last
        /\ UNCHANGED <<teachers_collection, next_oid, clock>>

\* find_one, then updated_announcement["_id"] = str(updated_announcement["_id"])
update_try_read(coll, announcement_id) ==
    LET updated_announcement == find_one(coll, ObjectId(announcement_id).oid)
    IN  IF updated_announcement = <<>>
        THEN [raised |-> TypeError, body |-> <<>>]
        ELSE [raised |-> Returned, body |-> <<Stringify(updated_announcement[1])>>]

\* announcements_collection.find_one(...) and the return
update_announcement_read(r) ==
    LET read == update_try_read(announcements_collection, r.id)
        final == except_handler(read.raised)
    IN  /\ last = Idle
        /\ r \in Handled
        /\ r.op = "update"
        /\ r.pc = "find_one"
        /\ last' = Response(r, final.status, final.detail, read.body)
        /\ inflight' = Finish(r)
        /\ UNCHANGED <<announcements_collection, teachers_collection, next_oid, clock>>

----------------------------------------------------------------------------
(* DELETE /announcements/{announcement_id} *)

\* delete_announcement up to its call of delete_one
delete_checks(request) ==
    IF ~teacher_exists(teachers_collection, request.username)
    THEN Unauthorized(request)
    ELSE IF ~ObjectId(request.id).valid
    THEN Response(request, except_handler(InvalidId(request.id)).status,
                  except_handler(InvalidId(request.id)).detail, <<>>)
    ELSE Response(request, 200, NoDetail, <<>>)

\* teachers_collection.find_one({"_id": username}) and what follows it
\* before the next call
delete_announcement(announcement_id, username) ==
    LET request == Request("delete", "delete_one", username, announcement_id,
                           NoPatch, NoAnnouncement, None)
        early == delete_checks(request)
    IN  /\ last = Idle
        /\ IF early.status # 200
           THEN /\ last' = early
                /\ UNCHANGED inflight
           ELSE /\ HasFree
                /\ inflight' = Start(request)
                /\ UNCHANGED last
        /\ UNCHANGED <<announcements_collection, teachers_collection, next_oid, clock>>

\* delete_one and the test of deleted_count
delete_try(coll, announcement_id) ==
    LET result == delete_one(coll, ObjectId(announcement_id).oid)
    IN  IF result.deleted_count = 0
        THEN [raised |-> NotFound, coll |-> result.coll]
        ELSE [raised |-> Raised("none", 200,
                                Detail("Announcement deleted successfully", "", <<>>),
                                NoDetail),
              coll |-> result.coll]

\* announcements_collection.delete_one(...) and the return
delete_announcement_delete(r) ==
    LET outcome == delete_try(announcements_collection, r.id)
        final == except_handler(outcome.raised)
    IN  /\ last = Idle
        /\ r \in Handled
        /\ r.op = "delete"
        /\ announcements_collection' = outcome.coll
        /\ last' = Response(r, final.status, final.detail, <<>>)
        /\ inflight' = Finish(r)
        /\ UNCHANGED <<teachers_collection, next_oid, clock>>

----------------------------------------------------------------------------
(* The environment: the clock and the Teacher Directory *)

\* Time passes within the day
tick ==
    /\ last = Idle
    /\ clock.us < MaxUs
    /\ clock' = [clock EXCEPT !.us = clock.us + 1]
    /\ UNCHANGED <<announcements_collection, teachers_collection, next_oid, inflight, last>>

\* Midnight
next_day ==
    /\ last = Idle
    /\ clock.day < MaxDay
    /\ clock' = [day |-> clock.day + 1, us |-> 0]
    /\ UNCHANGED <<announcements_collection, teachers_collection, next_oid, inflight, last>>

\* A teacher record is removed from the directory (not by this router)
remove_teacher(username) ==
    /\ last = Idle
    /\ username \in teachers_collection
    /\ teachers_collection' = teachers_collection \ {username}
    /\ UNCHANGED <<announcements_collection, next_oid, clock, inflight, last>>

----------------------------------------------------------------------------
(* Inputs *)

Teacher == <<"t", "1">>
Other == <<"x">>
Usernames == {Teacher, Other}

Day1 == strftime([day |-> 1, us |-> 0])
Day2 == strftime([day |-> 2, us |-> 0])

Announcement(message, start_date, expiration_date, created_by) ==
    [message |-> message, start_date |-> start_date,
     expiration_date |-> expiration_date, created_by |-> created_by]

\* AnnouncementCreate bodies of the editing requests
CreateInputs == {Announcement(<<"y", "o">>, None, Day2, u) : u \in Usernames}

\* AnnouncementCreate bodies among the listings of the active
\* announcements: no start, a start on the first day or on the second, an
\* expiration on the first day or on the second
ListedInputs ==
    {Announcement(<<"y", "o">>, None, Day2, Teacher),
     Announcement(<<"y", "o">>, Day2, Day2, Teacher),
     Announcement(<<"y", "o">>, Day1, Day1, Teacher)}

\* The day before the clock starts
Yesterday == <<"2", "0", "2", "3", "-", "1", "2", "-", "3", "1">>

\* AnnouncementCreate bodies among the listings of all announcements: one
\* that starts the day after the clock's, one that expired the day before
SortedInputs ==
    {Announcement(<<"y", "o">>, Day2, Day2, Teacher),
     Announcement(<<"y", "o">>, None, Yesterday, Teacher)}

Patch(message, start_date, expiration_date) ==
    [message |-> message, start_date |-> start_date, expiration_date |-> expiration_date]

\* AnnouncementUpdate bodies of the editing requests: the message alone, the
\* two dates alone
EditInputs == {Patch(<<"h", "i">>, None, None), Patch(None, <<>>, Day1)}

\* AnnouncementUpdate bodies among the listings of the active announcements:
\* the two dates
DateInputs == {Patch(None, <<>>, Day1)}

\* AnnouncementUpdate bodies among the listings of all announcements: the
\* message
MessageInputs == {Patch(<<"h", "i">>, None, None)}

\* AnnouncementUpdate bodies of the requests to be rejected
UpdateInputs == {NoPatch, Patch(<<"h", "i">>, None, None)}

\* Identifiers the store generates
Oids == {GenOid(n) : n \in FirstOid .. (FirstOid + MaxDocs - 1)}

\* Path parameters of the editing requests
StoredIds == {OidStr(o) : o \in Oids}

\* Path parameter of the writes among the listings: the first identifier
FirstIds == {OidStr(GenOid(FirstOid))}

\* Path parameters of the requests to be rejected: the generated identifiers,
\* the first one in upper case, eight bytes with a space or a vertical tab
\* after each, a string that is too short and one that is not hexadecimal
IdInputs ==
    StoredIds
        \cup {ZeroPad(FirstOid, OidHexLen, UpperHexDigits)}
        \cup {[i \in 1 .. OidHexLen |->
                  IF i % 6 = 0 THEN VerticalTab ELSE IF i % 3 = 0 THEN " " ELSE "0"]}
        \cup {<<"a">>, [i \in 1 .. OidHexLen |-> "g"]}

----------------------------------------------------------------------------
(* The specifications *)

Init ==
    /\ announcements_collection = <<>>
    /\ teachers_collection = {Teacher}
    /\ next_oid = FirstOid
    /\ clock = [day |-> 1, us |-> 0]
    /\ inflight = EmptyBag
    /\ last = Idle

\* The same with a directory of one teacher or of two
InitWide ==
    /\ announcements_collection = <<>>
    /\ teachers_collection \in {{Teacher}, {Teacher, Other}}
    /\ next_oid = FirstOid
    /\ clock = [day |-> 1, us |-> 0]
    /\ inflight = EmptyBag
    /\ last = Idle

\* Editing requests of a teacher who may leave the directory
Next ==
    \/ \E a \in CreateInputs : create_announcement(a)
    \/ \E r \in Handled : create_announcement_now(r)
    \/ \E r \in Handled : create_announcement_insert(r)
    \/ \E id \in StoredIds, a \in EditInputs : update_announcement(id, a, Teacher)
    \/ \E r \in Handled : update_announcement_write(r)
    \/ \E r \in Handled : update_announcement_read(r)
    \/ \E id \in StoredIds : delete_announcement(id, Teacher)
    \/ \E r \in Handled : delete_announcement_delete(r)
    \/ \E u \in Usernames : remove_teacher(u)
    \/ respond

Spec == Init /\ [][Next]_vars

\* Requests of unknown callers, with malformed identifiers or empty patches,
\* among requests that are served
NextRejected ==
    \/ \E u \in Usernames : get_all_announcements(u)
    \/ \E r \in Handled : get_all_announcements_find(r)
    \/ \E a \in CreateInputs : create_announcement(a)
    \/ \E r \in Handled : create_announcement_now(r)
    \/ \E r \in Handled : create_announcement_insert(r)
    \/ \E id \in IdInputs, a \in UpdateInputs, u \in Usernames : update_announcement(id, a, u)
    \/ \E r \in Handled : update_announcement_write(r)
    \/ \E r \in Handled : update_announcement_read(r)
    \/ \E id \in IdInputs, u \in Usernames : delete_announcement(id, u)
    \/ \E r \in Handled : delete_announcement_delete(r)
    \/ respond

SpecRejected == Init /\ [][NextRejected]_vars

\* Listings of the active announcements while announcements are created,
\* updated and deleted and days pass
NextActive ==
    \/ get_active_announcements
    \/ \E r \in Handled : get_active_announcements_find(r)
    \/ \E a \in ListedInputs : create_announcement(a)
    \/ \E r \in Handled : create_announcement_now(r)
    \/ \E r \in Handled : create_announcement_insert(r)
    \/ \E id \in FirstIds, a \in DateInputs : update_announcement(id, a, Teacher)
    \/ \E r \in Handled : update_announcement_write(r)
    \/ \E r \in Handled : update_announcement_read(r)
    \/ \E id \in FirstIds : delete_announcement(id, Teacher)
    \/ \E r \in Handled : delete_announcement_delete(r)
    \/ next_day
    \/ respond

SpecActive == Init /\ [][NextActive]_vars

\* Listings of all announcements while announcements are created, updated
\* and deleted, time passes and teachers leave the directory
NextListing ==
    \/ \E u \in Usernames : get_all_announcements(u)
    \/ \E r \in Handled : get_all_announcements_find(r)
    \/ \E a \in SortedInputs : create_announcement(a)
    \/ \E r \in Handled : create_announcement_now(r)
    \/ \E r \in Handled : create_announcement_insert(r)
    \/ \E id \in FirstIds, a \in MessageInputs : update_announcement(id, a, Teacher)
    \/ \E r \in Handled : update_announcement_write(r)
    \/ \E r \in Handled : update_announcement_read(r)
    \/ \E id \in FirstIds : delete_announcement(id, Teacher)
    \/ \E r \in Handled : delete_announcement_delete(r)
    \/ tick
    \/ \E u \in Usernames : remove_teacher(u)
    \/ respond

SpecListing == InitWide /\ [][NextListing]_vars

----------------------------------------------------------------------------
(* Properties.  A step of a request is told from the requests being       *)
(* handled before and after it and from the response it produces.         *)

Fields == {"message", "start_date", "expiration_date"}

Range(f) == {f[i] : i \in DOMAIN f}

Known(username) == username \in teachers_collection

HexChars == {"0", "1", "2", "3", "4", "5", "6", "7", "8", "9",
             "a", "b", "c", "d", "e", "f", "A", "B", "C", "D", "E", "F"}

\* The text parses as an identifier: 24 characters, each hexadecimal or
\* whitespace, the hexadecimal ones in adjacent pairs
WellFormed(id) ==
    /\ Len(id) = 24
    /\ \A i \in DOMAIN id :
           id[i] \in HexChars \cup {" ", "\t", "\n", VerticalTab, "\f", "\r"}
    /\ \A i \in DOMAIN id :
           (id[i] \in HexChars /\ Cardinality({j \in 1 .. (i - 1) : id[j] \in HexChars}) % 2 = 0)
               => (i + 1 \in DOMAIN id /\ id[i + 1] \in HexChars)

\* The stored documents with the identifier written as id
Stored(id) == {d \in Range(announcements_collection) : OidStr(d._id) = id}

\* The step takes up the request
Enters(r) == inflight' = inflight (+) SetToBag({r})

\* The step answers a request at its first call
Immediate == last = Idle /\ last' # Idle /\ inflight' = inflight

\* The step answers the request being handled
Completes(r) ==
    /\ r \in Handled
    /\ last = Idle /\ last' # Idle
    /\ inflight' = inflight (-) SetToBag({r})

\* The step is the successful write of the update being handled
Writes(r) ==
    /\ r \in Handled
    /\ r.op = "update" /\ r.pc = "update_one"
    /\ inflight' = (inflight (-) SetToBag({r})) (+) SetToBag({[r EXCEPT !.pc = "find_one"]})

\* The announcement is active on the date
IsActive(d, today) ==
    /\ StrLeq(today, d.expiration_date)
    /\ (d.start_date = None \/ d.start_date = <<>> \/ StrLeq(d.start_date, today))

\* The response lists the document, its identifier as a string
Shown(body, d) == \E i \in DOMAIN body : body[i] = [d EXCEPT !._id = OidStr(d._id)]

\* The response lists stored documents only, each once
ListsStored(body) ==
    /\ \A i \in DOMAIN body : \E d \in Range(announcements_collection) : body[i] = [d EXCEPT !._id = OidStr(d._id)]
    /\ \A i, j \in DOMAIN body : i # j => body[i]._id # body[j]._id

\* C1: list_active reads the current date from the clock, and answers 200
\* with exactly the stored announcements whose expiration_date is >= that
\* date and whose start_date is absent, empty or <= that date: an expired one
\* is never listed, one that has not started is never listed, one without a
\* start_date that has not expired is always listed; the store is unchanged.
C1_ListActive ==
    [][/\ \A r \in BagToSet(inflight') :
              (Enters(r) /\ r.op = "list_active") =>
                  /\ r.date = strftime(clock)
                  /\ announcements_collection' = announcements_collection
       /\ \A r \in Handled :
              (Completes(r) /\ r.op = "list_active") =>
                  /\ last'.status = 200
                  /\ last'.date = r.date
                  /\ ListsStored(last'.body)
                  /\ \A d \in Range(announcements_collection) :
                         /\ Shown(last'.body, d) <=> IsActive(d, r.date)
                         /\ ~StrLeq(r.date, d.expiration_date) => ~Shown(last'.body, d)
                         /\ (d.start_date # None /\ ~StrLeq(d.start_date, r.date))
                                => ~Shown(last'.body, d)
                         /\ (d.start_date = None /\ StrLeq(r.date, d.expiration_date))
                                => Shown(last'.body, d)
                  /\ announcements_collection' = announcements_collection]_vars

\* A listing that read the date before midnight answers after it: of two
\* stored announcements it lists the one that starts on the day it read
C1_Witness ==
    /\ last.op = "list_active"
    /\ last.date # strftime(clock)
    /\ Len(announcements_collection) = 2
    /\ Len(last.body) = 1
    /\ last.body[1].start_date = last.date

\* C2: list_all, create, update and delete by a caller who is not in the
\* Teacher Directory are answered 401 Unauthorized at once, whatever the
\* other arguments, and the store is unchanged; no such request gets as far
\* as a call of the store.
C2_Unauthorized ==
    [][/\ \A r \in BagToSet(inflight') :
              (Enters(r) /\ r.op \in {"list_all", "create", "update", "delete"})
                  => Known(r.username)
       /\ (/\ Immediate
           /\ last'.op \in {"list_all", "create", "update", "delete"}
           /\ ~Known(last'.username))
              => /\ last'.status = 401
                 /\ last'.detail.text = "Unauthorized"
                 /\ announcements_collection' = announcements_collection]_vars

\* An update with an empty patch and a malformed id by an unknown caller is
\* answered 401 while announcements are stored
C2_Witness ==
    /\ last.op = "update"
    /\ last.status = 401
    /\ ~Known(last.username)
    /\ last.patch = NoPatch
    /\ ~WellFormed(last.id)
    /\ announcements_collection # <<>>

\* C3: the write of an update with a well-formed id that matches no stored
\* announcement is answered 404 NotFound and leaves the store unchanged.
C3_UpdateNotFound ==
    [][\A r \in Handled :
           (/\ r.op = "update" /\ r.pc = "update_one"
            /\ WellFormed(r.id)
            /\ Stored(r.id) = {}
            /\ Completes(r))
               => /\ last'.status = 404
                  /\ announcements_collection' = announcements_collection]_vars

\* The identifier has been given to an announcement
Generated(id) == \E n \in FirstOid .. (next_oid - 1) : id = OidStr(GenOid(n))

\* C4: the delete of a stored announcement is answered 200 with the
\* confirmation and removes that document alone; the delete of an
\* announcement that has been deleted is answered 404 NotFound and leaves
\* the store unchanged.
C4_DeleteTwice ==
    [][\A r \in Handled :
           (r.op = "delete" /\ Completes(r)) =>
               IF Stored(r.id) # {}
               THEN /\ last'.status = 200
                    /\ last'.detail.text = "Announcement deleted successfully"
                    /\ announcements_collection' =
                           SelectSeq(announcements_collection, LAMBDA d : OidStr(d._id) # r.id)
               ELSE Generated(r.id) =>
                        /\ last'.status = 404
                        /\ announcements_collection' = announcements_collection]_vars

\* C5: the write of an update sets the non-null fields of the patch in the
\* announcement with the id and changes nothing else: the fields the patch
\* leaves unset and every other announcement keep their values; no other
\* step of an update changes the store.
C5_PartialUpdate ==
    [][/\ \A r \in Handled :
              Writes(r) =>
                  /\ Stored(r.id) # {}
                  /\ Len(announcements_collection') = Len(announcements_collection)
                  /\ \A i \in DOMAIN announcements_collection :
                         LET d == announcements_collection[i]
                             e == announcements_collection'[i]
                         IN  IF OidStr(d._id) = r.id
                             THEN /\ DOMAIN e = DOMAIN d
                                  /\ \A f \in DOMAIN d :
                                         e[f] = IF f \in Fields /\ r.patch[f] # None
                                                THEN r.patch[f] ELSE d[f]
                             ELSE e = d
       /\ \A r \in Handled :
              (r.op = "update" /\ Completes(r))
                  => announcements_collection' = announcements_collection
       /\ \A r \in BagToSet(inflight') :
              (r.op = "update" /\ Enters(r))
                  => announcements_collection' = announcements_collection
       /\ (Immediate /\ last'.op = "update")
              => announcements_collection' = announcements_collection]_vars

\* An update of the message alone has written: of two stored announcements
\* one has the new message and its dates as created, the other is as created
C5_Witness ==
    \E r \in Handled :
        /\ r.op = "update" /\ r.pc = "find_one"
        /\ r.patch = [message |-> <<"h", "i">>, start_date |-> None, expiration_date |-> None]
        /\ Len(announcements_collection) = 2
        /\ \E d \in Stored(r.id) :
               d.message = <<"h", "i">> /\ d.start_date = None /\ d.expiration_date = Day2
        /\ \E d \in Range(announcements_collection) :
               OidStr(d._id) # r.id /\ d.message = <<"y", "o">>

\* C6: list_all is taken up for a caller in the Teacher Directory only; it
\* answers 200 with every stored announcement, each once, the later
\* created_at first, and leaves the store unchanged.
C6_ListAll ==
    [][/\ \A r \in BagToSet(inflight') :
              (Enters(r) /\ r.op = "list_all") =>
                  /\ Known(r.username)
                  /\ announcements_collection' = announcements_collection
       /\ \A r \in Handled :
              (Completes(r) /\ r.op = "list_all") =>
                  /\ last'.status = 200
                  /\ ListsStored(last'.body)
                  /\ \A d \in Range(announcements_collection) : Shown(last'.body, d)
                  /\ Len(last'.body) = Len(announcements_collection)
                  /\ \A i \in DOMAIN last'.body :
                         i + 1 \in DOMAIN last'.body =>
                             StrLeq(last'.body[i + 1].created_at, last'.body[i].created_at)
                  /\ announcements_collection' = announcements_collection]_vars

\* Two announcements created at different times are listed, the one
\* inserted last first: one has expired and the other has not started on
\* the day of the listing
C6_Witness ==
    /\ last.op = "list_all"
    /\ last.status = 200
    /\ Len(announcements_collection) = 2
    /\ Len(last.body) = 2
    /\ last.body[1].created_at # last.body[2].created_at
    /\ last.body[1]._id = OidStr(announcements_collection[2]._id)
    /\ \E i \in DOMAIN last.body :
           /\ last.body[i].expiration_date # strftime(clock)
           /\ StrLeq(last.body[i].expiration_date, strftime(clock))
    /\ \E i \in DOMAIN last.body :
           /\ last.body[i].start_date # None
           /\ last.body[i].start_date # strftime(clock)
           /\ StrLeq(strftime(clock), last.body[i].start_date)
           /\ StrLeq(strftime(clock), last.body[i].expiration_date)

\* C7: update with a non-empty patch and delete, by a caller in the Teacher
\* Directory and with an id that is not a valid identifier, are answered at
\* once 400 "Invalid announcement ID: " followed by the text of the
\* exception, and the store is unchanged; no such request gets as far as a
\* call of the Announcement Store.
C7_InvalidId ==
    [][/\ \A r \in BagToSet(inflight') :
              (Enters(r) /\ r.op \in {"update", "delete"}) => WellFormed(r.id)
       /\ (/\ Immediate
           /\ last'.op \in {"update", "delete"}
           /\ Known(last'.username)
           /\ last'.op = "update" => \E f \in Fields : last'.patch[f] # None
           /\ ~WellFormed(last'.id))
              => /\ last'.status = 400
                 /\ last'.detail =
                        [text |-> "Invalid announcement ID: ",
                         exc |-> "%r is not a valid ObjectId, it must be a 12-byte input or a 24-character hex string",
                         arg |-> last'.id]
                 /\ announcements_collection' = announcements_collection]_vars

\* An update of the message by a teacher of the directory, with an id of 24
\* characters that does not parse, is answered 400 with the text of
\* InvalidId while announcements are stored
C7_Witness ==
    /\ last.op = "update"
    /\ last.status = 400
    /\ last.detail.text = "Invalid announcement ID: "
    /\ last.detail.exc = "%r is not a valid ObjectId, it must be a 12-byte input or a 24-character hex string"
    /\ last.detail.arg = last.id
    /\ Known(last.username)
    /\ Len(last.id) = 24
    /\ ~WellFormed(last.id)
    /\ last.patch.message # None
    /\ announcements_collection # <<>>

\* C8: update by a caller in the Teacher Directory with a patch whose
\* fields are all null is answered at once 400 "No fields to update",
\* whatever the id, and the store is unchanged; no such request gets as far
\* as a call of the Announcement Store.
C8_NoFields ==
    [][/\ \A r \in BagToSet(inflight') :
              (Enters(r) /\ r.op = "update") => \E f \in Fields : r.patch[f] # None
       /\ (/\ Immediate
           /\ last'.op = "update"
           /\ Known(last'.username)
           /\ \A f \in Fields : last'.patch[f] = None)
              => /\ last'.status = 400
                 /\ last'.detail = [text |-> "No fields to update", exc |-> "", arg |-> <<>>]
                 /\ announcements_collection' = announcements_collection]_vars

\* An update with an empty patch and a malformed id is answered 400 "No
\* fields to update" while announcements are stored
C8_Witness ==
    /\ last.op = "update"
    /\ last.status = 400
    /\ last.detail.text = "No fields to update"
    /\ ~WellFormed(last.id)
    /\ Known(last.username)
    /\ announcements_collection # <<>>

\* Stored identifiers are distinct, and a step leaves every announcement it
\* keeps with its id, created_by and created_at
Immutable ==
    /\ \A i, j \in DOMAIN announcements_collection :
           announcements_collection[i]._id = announcements_collection[j]._id => i = j
    /\ \A d \in Range(announcements_collection), e \in Range(announcements_collection') :
           e._id = d._id => (e.created_by = d.created_by /\ e.created_at = d.created_at)

\* The announcements the step adds to the store
Created == {e \in Range(announcements_collection') :
                \A d \in Range(announcements_collection) : d._id # e._id}

\* C9 as stated: no step changes the id, created_by or created_at of a
\* stored announcement, and the created_by of an announcement is in the
\* Teacher Directory when the announcement is added to the store.
C9_CreatedByKnownAtInsert ==
    [][/\ Immutable
       /\ \A e \in Created : Known(e.created_by)]_vars

\* C9 amended: no step changes the id, created_by or created_at of a stored
\* announcement; an announcement is added by the insert of a create being
\* handled, with a new identifier, the created_by of the request and the time
\* the request read; a create is taken up only when its created_by is in
\* the Teacher Directory at that lookup, whatever becomes of the teacher
\* before the insert or after it.
C9_CreatedByKnownAtLookup ==
    [][/\ Immutable
       /\ \A e \in Created :
              \E r \in Handled :
                  /\ r.op = "create" /\ r.pc = "insert_one"
                  /\ Completes(r)
                  /\ e._id = GenOid(next_oid) /\ next_oid' > next_oid
                  /\ e.created_by = r.announcement.created_by
                  /\ e.created_at = r.date
       /\ \A r \in BagToSet(inflight') :
              (Enters(r) /\ r.op = "create") =>
                  /\ r.username = r.announcement.created_by
                  /\ Known(r.announcement.created_by)]_vars

\* A create has just inserted an announcement of a teacher who left the
\* directory after the lookup
C9_Witness ==
    /\ last.op = "create"
    /\ last.status = 200
    /\ announcements_collection # <<>>
    /\ ~Known(announcements_collection[Len(announcements_collection)].created_by)
    /\ last.body[1]._id = OidStr(announcements_collection[Len(announcements_collection)]._id)

\* C10: an update whose write matched an announcement is answered 200 with
\* the announcement of its id, whatever other requests do between its write
\* and its read.
C10_UpdateReadBack ==
    [][\A r \in Handled :
           (r.op = "update" /\ r.pc = "find_one" /\ Completes(r))
               => /\ last'.status = 200
                  /\ Len(last'.body) = 1
                  /\ last'.body[1]._id = r.id]_vars

====
